---- MODULE Spec2Model ----
(***************************************************************************)
(* Update-lock coordination of the supervisor: lib/update-lock.ts (lock,   *)
(* dispose, writeLock, readLock, abortIfHUPInProgress) on top of           *)
(* lib/lockfile.ts (lock, unlock, the locksTaken registry).  Every await   *)
(* of the source is a separate step of the call that executes it.          *)
(***************************************************************************)
EXTENDS Integers, Sequences, FiniteSets, TLC

\* ---- bounds ----
MaxCalls == 3          \* withLock calls made in one run, over all tasks
MaxExtHeld == 1        \* lock files the external actor holds at once

Procs == {"p1", "p2"}  \* concurrent in-process tasks calling lock()
Apps == {1, 2}         \* application ids used as rwlock keys
NoApp == 0             \* appId == null
Ext == "ext"           \* an external process following the lockfile convention
None == "none"

\* service directory names that can exist under BASE_LOCK_DIR/<appId>
ServiceNames == {"main", "web"}

\* an application with two service directories
OrderApps == {3}
\* the keys of the rwlock table
Keys == Apps \cup OrderApps

\* Content of BASE_LOCK_DIR/<appId> as fs.readdir lists it; an empty list is
\* the missing directory (ENOENT is turned into []).  Application 1 has one
\* service directory, application 2 has no directory.
ServiceDirs(appId) ==
    IF appId = 1 THEN <<"web">>
    ELSE IF appId \in OrderApps THEN <<"main", "web">>
    ELSE <<>>

\* ---- update-lock.ts: paths ----
lockPath(appId, serviceName) == <<appId, serviceName>>

lockFilesOnHost_resinFirst(appId, serviceName) ==
    << <<lockPath(appId, serviceName), "resin-updates.lock">>,
       <<lockPath(appId, serviceName), "updates.lock">> >>

lockFilesOnHost(appId, serviceName) ==
    << <<lockPath(appId, serviceName), "updates.lock">>,
       <<lockPath(appId, serviceName), "resin-updates.lock">> >>

\* The lock files of one call in acquisition order: mapSeries over the
\* services, and inside it mapSeries over lockFilesOnHost.
LockSeq(appId) ==
    [i \in 1..(2 * Len(ServiceDirs(appId))) |->
        lockFilesOnHost(appId, ServiceDirs(appId)[(i + 1) \div 2])[((i - 1) % 2) + 1]]

AppFiles(appId) == {LockSeq(appId)[i] : i \in 1..Len(LockSeq(appId))}
\* every path a lock file can have, and those whose directory exists
Files ==
    {<<lockPath(a, s), n>> :
        a \in Keys, s \in ServiceNames, n \in {"updates.lock", "resin-updates.lock"}}
LiveFiles == UNION {AppFiles(a) : a \in Apps}
OrderFiles == UNION {AppFiles(a) : a \in OrderApps}

Readers == {"r1", "r2"} \* in-process tasks calling readLock()

VARIABLES
    pc,           \* position of each task inside lock()
    app,          \* appId argument of the task's current call
    force,        \* force option of the current call
    skip,         \* skipLock option of the current call
    lo,           \* lockOverride value the call read from config
    idx,          \* index in LockSeq of the lock file being acquired
    toUnlink,     \* dispose: snapshot paths whose unlinkAll has not run yet
    toDereg,      \* dispose: paths unlinked, `delete locksTaken[path]` pending
    outcome,      \* how the current call settles
    ranCS,        \* fn() was invoked by the current call
    blockedOn,    \* path whose acquisition failed with LockfileExistsError
    pre,          \* files present when the call started and not removed since
    cleared,      \* files of pre that the force branch of the call removed
    relCount,     \* times the call has invoked the rwlock release function
    acquired,     \* paths lockfile.lock created for the call, in order
    lockedInfo,   \* {serviceName, appId} carried by the UpdatesLockedError
    rpc,          \* position of each readLock() caller
    rkey,         \* key of its readLock() request
    calls,        \* number of lock() calls made so far
    readers,      \* rwlock: per key, -1 = writer, 0 = free, n = readers
    queue,        \* rwlock: per key, FIFO of waiting requests
    writer,       \* rwlock: per key, the task whose release() is outstanding
    fileOwner,    \* filesystem: creator of each lock file, None = absent
    locksTaken,   \* lockfile.ts registry
    lockOverride, \* config value
    breadcrumb,   \* host: which rollback breadcrumb files exist
    hupPc,        \* position of the abortIfHUPInProgress call
    hupForce,     \* its force argument
    existsArray,  \* results of pathExistsOnHost received so far
    received,     \* breadcrumbs whose pathExistsOnHost has resolved
    hupResult,    \* how the call settled
    lf            \* a direct caller of lockfile.ts, and the exit of the process

callVars == <<pc, app, force, skip, lo, idx, toUnlink, toDereg, outcome,
              ranCS, blockedOn, pre, cleared, calls, relCount, acquired,
              lockedInfo>>
vars == <<pc, app, force, skip, lo, idx, toUnlink, toDereg, outcome,
          ranCS, blockedOn, pre, cleared, calls, relCount, acquired,
          lockedInfo, rpc, rkey, readers, queue, writer, fileOwner,
          locksTaken, lockOverride, breadcrumb, hupPc, hupForce,
          existsArray, received, hupResult, lf>>
lockVars == <<callVars, rpc, rkey, readers, queue, writer, fileOwner,
              locksTaken, lockOverride, lf>>
hupVars == <<breadcrumb, hupPc, hupForce, existsArray, received, hupResult>>
\* what no step of lock() changes
envVars == <<rkey, hupVars, lf>>

\* {serviceName, appId} of an error that names no service
NoInfo == <<NoApp, None>>
\* no path: the direct caller of lockfile.ts is between operations
NoPath == <<NoInfo, None>>
\* creator of the lock files the direct caller of lockfile.ts takes
Client == "client"

Breadcrumbs == {"rollback-health-breadcrumb", "rollback-altboot-breadcrumb"}
\* values of the optional force argument
ForceArgs == {"true", "false", "undefined"}

Init ==
    /\ lf = [pc |-> "idle", op |-> None, path |-> NoPath, prim |-> None,
             err |-> None, redo |-> FALSE, exited |-> FALSE, failed |-> {},
             raised |-> FALSE]
    /\ relCount = [p \in Procs |-> 0]
    /\ acquired = [p \in Procs |-> <<>>]
    /\ lockedInfo = [p \in Procs |-> NoInfo]
    /\ rpc = [r \in Readers |-> "idle"]
    /\ rkey = [r \in Readers |-> NoApp]
    /\ pc = [p \in Procs |-> "idle"]
    /\ app = [p \in Procs |-> NoApp]
    /\ force = [p \in Procs |-> FALSE]
    /\ skip = [p \in Procs |-> FALSE]
    /\ lo = [p \in Procs |-> FALSE]
    /\ idx = [p \in Procs |-> 0]
    /\ toUnlink = [p \in Procs |-> {}]
    /\ toDereg = [p \in Procs |-> {}]
    /\ outcome = [p \in Procs |-> None]
    /\ ranCS = [p \in Procs |-> FALSE]
    /\ blockedOn = [p \in Procs |-> None]
    /\ pre = [p \in Procs |-> {}]
    /\ cleared = [p \in Procs |-> {}]
    /\ calls = 0
    /\ readers = [k \in Keys |-> 0]
    /\ queue = [k \in Keys |-> <<>>]
    /\ writer = [k \in Keys |-> None]
    /\ fileOwner = [f \in Files |-> None]
    /\ locksTaken = {}
    /\ lockOverride \in BOOLEAN
    /\ breadcrumb = [b \in Breadcrumbs |-> FALSE]
    /\ hupPc = "idle"
    /\ hupForce = "undefined"
    /\ existsArray = [b \in Breadcrumbs |-> FALSE]
    /\ received = {}
    /\ hupResult = [threw |-> None, value |-> FALSE]

\* ---- collaborators outside lib/update-lock.ts and lib/lockfile.ts ----

\* fs-utils exec of `lockfile -r 0 path`: atomic create that does not retry.
\* "created" when the path was absent, "exists" when it was present (the
\* signal lockfile.ts recognises as LockfileExistsError), "error" for any
\* other failure of chmod or of the binary.
exec(owner, fails) ==
    IF fails THEN "error"
    ELSE IF owner = None THEN "created" ELSE "exists"

\* fs-utils unlinkAll: remove the path, a missing file is not an error.
unlinkAll(fs, path) == [fs EXCEPT ![path] = None]

\* ---- lockfile.ts ----

lockError_fatalOnly(execResult) == "Error"

\* lock(): the catch block around exec.
lockError(execResult) ==
    IF execResult = "exists" THEN "LockfileExistsError" ELSE "Error"

getLocksTaken(taken) == taken

\* ---- update-lock.ts ----

clearFirst_forceOnly(f, override) == f

\* `if (force || lockOverride)` before lockfile.lock
clearFirst(f, override) == f \/ override

surfaced_asIs(err) == err

surfaced_inconsistent(err) ==
    IF err = "LockfileExistsError" THEN "UpdatesLockedError"
    ELSE "InternalInconsistencyError"

\* the two .catch clauses after lockfile.lock
surfaced(err) ==
    IF err = "LockfileExistsError" THEN "UpdatesLockedError" ELSE err

mustWait_queueOnly(k, p) == queue[k] # <<>>

mustWait_anyKey(k, p) == \E j \in Apps : readers[j] # 0 \/ queue[j] # <<>>

mustWait_writerOnly(k, p) == readers[k] < 0 \/ queue[k] # <<>>

\* rwlock writeLock: the request waits when the key is held or others wait
mustWait(k, p) == readers[k] # 0 \/ queue[k] # <<>>

\* rwlock: what running queue[0]() does after a release left rd holders;
\* a granted writer stops the chain, a granted reader runs the next entry
RECURSIVE drain(_, _, _)
drain(rd, q, g) ==
    IF q = <<>> THEN [readers |-> rd, queue |-> q, granted |-> g]
    ELSE IF Head(q) \in Procs
      THEN IF rd = 0
             THEN [readers |-> -1, queue |-> Tail(q),
                   granted |-> g \cup {Head(q)}]
             ELSE [readers |-> rd, queue |-> q, granted |-> g]
      ELSE IF rd >= 0
             THEN drain(rd + 1, Tail(q), g \cup {Head(q)})
             ELSE [readers |-> rd, queue |-> q, granted |-> g]

\* the task whose write lock release is outstanding after a grant
holder(granted) ==
    IF granted \cap Procs = {} THEN None
    ELSE CHOOSE w \in granted \cap Procs : TRUE

\* predicate of the second .catch after lockfile.lock
otherError(err) == err \notin {"LockfileExistsError", "UpdatesLockedError"}

usingResult_disposer(ran, res, disposed) == IF ran THEN disposed ELSE res

\* Bluebird.using(disposer, fn): fn's outcome once the disposer has run;
\* what the disposer resolves to is dropped.  An acquisition error passes.
usingResult(ran, res, disposed) == res

lockedDetails_first(appId, services, i) == <<appId, services[1]>>

\* the {serviceName, appId} of the UpdatesLockedError: the closure
\* variables of the mapSeries callback that handles lock file number i
lockedDetails(appId, services, i) == <<appId, services[(i + 1) \div 2]>>

\* dispose(): the paths handed to lockfile.unlock
disposeTargets(p) == getLocksTaken(locksTaken)

noLocking_nullOnly(appId, s) == appId = NoApp

\* `if (skipLock || appId == null)`
noLocking(appId, s) == s \/ appId = NoApp

stepFor_live(p, i) ==
    IF i > Len(LockSeq(app[p])) THEN "cs"
    ELSE IF clearFirst(force[p], lockOverride) THEN "funlink" ELSE "exec"

\* pc at which the call handles lock file number i, or runs fn after the last
stepFor(p, i) ==
    IF i > Len(LockSeq(app[p])) THEN "cs"
    ELSE IF clearFirst(force[p], lo[p]) THEN "funlink" ELSE "exec"

\* the call has settled: its locals go out of scope
Settled(p) ==
    /\ force' = [force EXCEPT ![p] = FALSE]
    /\ lo' = [lo EXCEPT ![p] = FALSE]
    /\ idx' = [idx EXCEPT ![p] = 0]
    /\ pre' = [pre EXCEPT ![p] = {}]
    /\ cleared' = [cleared EXCEPT ![p] = {}]
    /\ acquired' = [acquired EXCEPT ![p] = <<>>]

\* lock(appId, {force, skipLock}, fn): entry
Call(p, appId, f, s) ==
    /\ pc[p] \in {"idle", "done"}
    /\ calls < MaxCalls
    /\ calls' = calls + 1
    /\ app' = [app EXCEPT ![p] = appId]
    /\ force' = [force EXCEPT ![p] = f]
    /\ skip' = [skip EXCEPT ![p] = s]
    /\ lo' = [lo EXCEPT ![p] = FALSE]
    /\ idx' = [idx EXCEPT ![p] = 0]
    /\ outcome' = [outcome EXCEPT ![p] = None]
    /\ blockedOn' = [blockedOn EXCEPT ![p] = None]
    /\ cleared' = [cleared EXCEPT ![p] = {}]
    /\ IF noLocking(appId, s)
         THEN /\ pc' = [pc EXCEPT ![p] = "cs"]
              /\ ranCS' = [ranCS EXCEPT ![p] = TRUE]
              /\ pre' = [pre EXCEPT ![p] = {}]
         ELSE /\ pc' = [pc EXCEPT ![p] = "config"]
              /\ ranCS' = [ranCS EXCEPT ![p] = FALSE]
              /\ pre' = [pre EXCEPT ![p] =
                           {x \in AppFiles(appId) : fileOwner[x] # None}]
    /\ UNCHANGED <<toUnlink, toDereg, readers, queue, writer, fileOwner, locksTaken,
                   lockOverride>>
    /\ UNCHANGED <<rpc, envVars>>
    /\ relCount' = [relCount EXCEPT ![p] = 0]
    /\ acquired' = [acquired EXCEPT ![p] = <<>>]
    /\ lockedInfo' = [lockedInfo EXCEPT ![p] = NoInfo]

\* config.get('lockOverride') rejected: the outer .catch
ConfigFail(p) ==
    /\ pc[p] = "config"
    /\ pc' = [pc EXCEPT ![p] = "done"]
    /\ outcome' = [outcome EXCEPT ![p] = "InternalInconsistencyError"]
    /\ Settled(p)
    /\ UNCHANGED <<app, skip, toUnlink, toDereg, ranCS, blockedOn, calls, readers,
                   queue, writer, fileOwner, locksTaken, lockOverride>>
    /\ UNCHANGED <<rpc, envVars>>
    /\ UNCHANGED <<relCount, lockedInfo>>

\* config.get('lockOverride') resolved, then writeLock(appId) is requested
GetConfig(p) ==
    /\ pc[p] = "config"
    /\ lo' = [lo EXCEPT ![p] = lockOverride]
    /\ IF mustWait(app[p], p)
         THEN /\ queue' = [queue EXCEPT ![app[p]] = Append(@, p)]
              /\ pc' = [pc EXCEPT ![p] = "waiting"]
              /\ UNCHANGED <<readers, writer>>
         ELSE /\ readers' = [readers EXCEPT ![app[p]] = -1]
              /\ writer' = [writer EXCEPT ![app[p]] = p]
              /\ pc' = [pc EXCEPT ![p] = "readdir"]
              /\ UNCHANGED queue
    /\ UNCHANGED <<app, force, skip, idx, toUnlink, toDereg, outcome, ranCS,
                   blockedOn, pre, calls, fileOwner, locksTaken, lockOverride>>
    /\ UNCHANGED <<cleared, rpc, envVars>>
    /\ UNCHANGED <<relCount, acquired, lockedInfo>>

\* what fs.readdir(lockDir) can settle with: the listing, ENOENT when the
\* directory is missing, or another error
readdirResults(appId) ==
    IF ServiceDirs(appId) = <<>> THEN {"ENOENT", "ReaddirError"}
    ELSE {"ok", "ReaddirError"}

catchReturn_none(res) == res

\* .catchReturn(ENOENT, []): a missing directory is an empty listing
catchReturn(res) == IF res = "ENOENT" THEN "ok" ELSE res

\* fs.readdir(lockDir).catchReturn(ENOENT, []) inside .tap
Readdir(p) ==
    /\ pc[p] = "readdir"
    /\ \E r \in readdirResults(app[p]) : catchReturn(r) = "ok"
    /\ idx' = [idx EXCEPT ![p] = 1]
    /\ pc' = [pc EXCEPT ![p] = stepFor(p, 1)]
    /\ ranCS' = [ranCS EXCEPT ![p] = (stepFor(p, 1) = "cs")]
    /\ UNCHANGED <<app, force, skip, lo, toUnlink, toDereg, outcome,
                   blockedOn, pre, calls, readers, queue, writer, fileOwner,
                   locksTaken, lockOverride>>
    /\ UNCHANGED <<cleared, rpc, envVars>>
    /\ UNCHANGED <<relCount, acquired, lockedInfo>>

\* fs.readdir rejected with an error other than ENOENT: the .tap promise is
\* rejected, no handler calls release and the disposer is never run.
ReaddirFail(p) ==
    /\ pc[p] = "readdir"
    /\ pc' = [pc EXCEPT ![p] = "done"]
    /\ \E r \in readdirResults(app[p]) :
          /\ catchReturn(r) # "ok"
          /\ outcome' = [outcome EXCEPT ![p] = catchReturn(r)]
    /\ Settled(p)
    /\ UNCHANGED <<app, skip, toUnlink, toDereg, ranCS, blockedOn, calls, readers,
                   queue, writer, fileOwner, locksTaken, lockOverride>>
    /\ UNCHANGED <<rpc, envVars>>
    /\ UNCHANGED <<relCount, lockedInfo>>

\* lockfile.unlock(tmpLockName) of the force branch: await unlinkAll(path)
ForceUnlink(p) ==
    /\ pc[p] = "funlink"
    /\ fileOwner' = unlinkAll(fileOwner, LockSeq(app[p])[idx[p]])
    /\ pre' = [q \in Procs |-> pre[q] \ {LockSeq(app[p])[idx[p]]}]
    /\ cleared' = [cleared EXCEPT ![p] =
                      @ \cup ({LockSeq(app[p])[idx[p]]} \cap pre[p])]
    /\ pc' = [pc EXCEPT ![p] = "fdereg"]
    /\ UNCHANGED <<app, force, skip, lo, idx, toUnlink, toDereg, outcome,
                   ranCS, blockedOn, calls, readers, queue, writer, locksTaken,
                   lockOverride>>
    /\ UNCHANGED <<rpc, envVars>>
    /\ UNCHANGED <<relCount, acquired, lockedInfo>>

\* ... then delete locksTaken[path]
ForceDereg(p) ==
    /\ pc[p] = "fdereg"
    /\ locksTaken' = locksTaken \ {LockSeq(app[p])[idx[p]]}
    /\ pc' = [pc EXCEPT ![p] = "exec"]
    /\ UNCHANGED <<app, force, skip, lo, idx, toUnlink, toDereg, outcome,
                   ranCS, blockedOn, pre, calls, readers, queue, writer, fileOwner,
                   lockOverride>>
    /\ UNCHANGED <<cleared, rpc, envVars>>
    /\ UNCHANGED <<relCount, acquired, lockedInfo>>

\* lockfile.lock(tmpLockName): chmod and exec of the lockfile binary, and on
\* failure the catch clauses of lockfile.lock and of update-lock.
Exec(p, fails) ==
    /\ pc[p] = "exec"
    /\ LET path == LockSeq(app[p])[idx[p]]
           res == exec(fileOwner[path], fails)
       IN IF res = "created"
            THEN /\ fileOwner' = [fileOwner EXCEPT ![path] = p]
                 /\ acquired' = [acquired EXCEPT ![p] = Append(@, path)]
                 /\ pc' = [pc EXCEPT ![p] = "register"]
                 /\ UNCHANGED <<outcome, blockedOn, lockedInfo>>
            ELSE /\ outcome' = [outcome EXCEPT ![p] = surfaced(lockError(res))]
                 /\ blockedOn' = [blockedOn EXCEPT ![p] =
                                    IF res = "exists" THEN path ELSE None]
                 /\ lockedInfo' = [lockedInfo EXCEPT ![p] =
                                    IF res = "exists"
                                      THEN lockedDetails(app[p],
                                               ServiceDirs(app[p]), idx[p])
                                      ELSE NoInfo]
                 /\ pc' = [pc EXCEPT ![p] = "dispose"]
                 /\ UNCHANGED <<fileOwner, acquired>>
    /\ UNCHANGED <<app, force, skip, lo, idx, toUnlink, toDereg, ranCS, pre,
                   calls, readers, queue, writer, locksTaken, lockOverride>>
    /\ UNCHANGED <<cleared, rpc, envVars>>
    /\ UNCHANGED relCount

\* lockfile.lock after the await: locksTaken[path] = true; mapSeries then
\* moves to the next lock file, or the resource is ready and using() runs fn
Register(p) ==
    /\ pc[p] = "register"
    /\ locksTaken' = locksTaken \cup {LockSeq(app[p])[idx[p]]}
    /\ idx' = [idx EXCEPT ![p] = @ + 1]
    /\ pc' = [pc EXCEPT ![p] = stepFor(p, idx[p] + 1)]
    /\ ranCS' = [ranCS EXCEPT ![p] = (stepFor(p, idx[p] + 1) = "cs")]
    /\ UNCHANGED <<app, force, skip, lo, toUnlink, toDereg, outcome,
                   blockedOn, pre, calls, readers, queue, writer, fileOwner,
                   lockOverride>>
    /\ UNCHANGED <<cleared, rpc, envVars>>
    /\ UNCHANGED <<relCount, acquired, lockedInfo>>

\* fn settles: with a value or with an error of its own
Cs(p, result) ==
    /\ pc[p] = "cs"
    /\ outcome' = [outcome EXCEPT ![p] = result]
    /\ IF noLocking(app[p], skip[p])
         THEN /\ pc' = [pc EXCEPT ![p] = "done"]
              /\ Settled(p)
         ELSE /\ pc' = [pc EXCEPT ![p] = "dispose"]
              /\ UNCHANGED <<force, lo, idx, pre, cleared, acquired>>
    /\ UNCHANGED <<app, skip, toUnlink, toDereg, ranCS, blockedOn, calls, readers,
                   queue, writer, fileOwner, locksTaken, lockOverride>>
    /\ UNCHANGED <<rpc, envVars>>
    /\ UNCHANGED <<relCount, lockedInfo>>

\* dispose(release): Bluebird.map(lockfile.getLocksTaken(), ...) starts
DisposeStart(p) ==
    /\ pc[p] = "dispose"
    /\ toUnlink' = [toUnlink EXCEPT ![p] = disposeTargets(p)]
    /\ pc' = [pc EXCEPT ![p] = "unlocking"]
    /\ pre' = [pre EXCEPT ![p] = {}]
    /\ cleared' = [cleared EXCEPT ![p] = {}]
    /\ UNCHANGED <<app, force, skip, lo, idx, toDereg, outcome, ranCS,
                   blockedOn, calls, readers, queue, writer, fileOwner,
                   locksTaken, lockOverride>>
    /\ UNCHANGED <<rpc, envVars>>
    /\ UNCHANGED <<relCount, acquired, lockedInfo>>

\* lockfile.unlock(lockName) inside dispose: await unlinkAll(path)
Unlink(p, path) ==
    /\ pc[p] = "unlocking"
    /\ path \in toUnlink[p]
    /\ fileOwner' = unlinkAll(fileOwner, path)
    /\ pre' = [q \in Procs |-> pre[q] \ {path}]
    /\ toUnlink' = [toUnlink EXCEPT ![p] = @ \ {path}]
    /\ toDereg' = [toDereg EXCEPT ![p] = @ \cup {path}]
    /\ UNCHANGED <<pc, app, force, skip, lo, idx, outcome, ranCS, blockedOn,
                   calls, readers, queue, writer, locksTaken, lockOverride>>
    /\ UNCHANGED <<cleared, rpc, envVars>>
    /\ UNCHANGED <<relCount, acquired, lockedInfo>>

\* ... then delete locksTaken[path]
Dereg(p, path) ==
    /\ pc[p] = "unlocking"
    /\ path \in toDereg[p]
    /\ locksTaken' = locksTaken \ {path}
    /\ toDereg' = [toDereg EXCEPT ![p] = @ \ {path}]
    /\ UNCHANGED <<pc, app, force, skip, lo, idx, toUnlink, outcome, ranCS,
                   blockedOn, pre, calls, readers, queue, writer, fileOwner,
                   lockOverride>>
    /\ UNCHANGED <<cleared, rpc, envVars>>
    /\ UNCHANGED <<relCount, acquired, lockedInfo>>

\* .finally(release): the first invocation of the rwlock release function
\* frees the key and runs the head of the queue, a later one does nothing.
\* After the .catch(LockfileExistsError) clause the rethrown error passes
\* the predicate of the second .catch, which disposes again when it matches.
\* Otherwise the call settles: using() delivers the outcome.
Release(p) ==
    /\ pc[p] = "unlocking"
    /\ toUnlink[p] = {} /\ toDereg[p] = {}
    /\ relCount' = [relCount EXCEPT ![p] = @ + 1]
    /\ outcome' = [outcome EXCEPT ![p] = usingResult(ranCS[p], @, "value")]
    /\ LET k == app[p]
           first == relCount[p] = 0
           d == drain(0, queue[k], {})
           woken == IF first THEN d.granted ELSE {}
           again == ~ranCS[p] /\ first /\ blockedOn[p] # None
                       /\ otherError(outcome[p])
       IN /\ IF first
                THEN /\ readers' = [readers EXCEPT ![k] = d.readers]
                     /\ queue' = [queue EXCEPT ![k] = d.queue]
                     /\ writer' = [writer EXCEPT ![k] = holder(d.granted)]
                ELSE UNCHANGED <<readers, queue, writer>>
          /\ pc' = [q \in Procs |->
                       IF q = p THEN (IF again THEN "dispose" ELSE "done")
                       ELSE IF q \in woken THEN "readdir" ELSE pc[q]]
          /\ rpc' = [r \in Readers |->
                        IF r \in woken THEN "reading" ELSE rpc[r]]
          /\ IF again
                THEN UNCHANGED <<force, lo, idx, pre, cleared, acquired>>
                ELSE Settled(p)
    /\ UNCHANGED <<app, skip, toUnlink, toDereg, ranCS, blockedOn, calls,
                   fileOwner, locksTaken, lockOverride, lockedInfo>>
    /\ UNCHANGED envVars

\* ---- environment ----

\* an external process takes a lock file with the same atomic create
ExtLock(path) ==
    /\ exec(fileOwner[path], FALSE) = "created"
    /\ Cardinality({x \in Files : fileOwner[x] = Ext}) < MaxExtHeld
    /\ fileOwner' = [fileOwner EXCEPT ![path] = Ext]
    /\ UNCHANGED <<callVars, readers, queue, writer, locksTaken, lockOverride>>
    /\ UNCHANGED <<rpc, envVars>>

\* the external process releases a lock file it still holds
ExtUnlock(path) ==
    /\ fileOwner[path] = Ext
    /\ fileOwner' = unlinkAll(fileOwner, path)
    /\ pre' = [q \in Procs |-> pre[q] \ {path}]
    /\ UNCHANGED <<pc, app, force, skip, lo, idx, toUnlink, toDereg, outcome,
                   ranCS, blockedOn, calls, readers, queue, writer, locksTaken,
                   lockOverride>>
    /\ UNCHANGED <<cleared, rpc, envVars>>
    /\ UNCHANGED <<relCount, acquired, lockedInfo>>

Next ==
    \/ \E p \in Procs, a \in Apps \cup {NoApp}, f \in BOOLEAN, s \in BOOLEAN :
          Call(p, a, f, s)
    \/ \E p \in Procs : ConfigFail(p)
    \/ \E p \in Procs : GetConfig(p)
    \/ \E p \in Procs : Readdir(p)
    \/ \E p \in Procs : ReaddirFail(p)
    \/ \E p \in Procs : ForceUnlink(p)
    \/ \E p \in Procs : ForceDereg(p)
    \/ \E p \in Procs, fails \in BOOLEAN : Exec(p, fails)
    \/ \E p \in Procs : Register(p)
    \/ \E p \in Procs, r \in {"value", "CsError"} : Cs(p, r)
    \/ \E p \in Procs : DisposeStart(p)
    \/ \E p \in Procs, path \in LiveFiles : Unlink(p, path)
    \/ \E p \in Procs, path \in LiveFiles : Dereg(p, path)
    \/ \E p \in Procs : Release(p)
    \/ \E path \in LiveFiles : ExtLock(path)
    \/ \E path \in LiveFiles : ExtUnlock(path)

Spec == Init /\ [][Next]_vars

\* lock() calls without options for the application with two service
\* directories, next to the external actor
NextOrder ==
    \/ \E p \in Procs, a \in OrderApps : Call(p, a, FALSE, FALSE)
    \/ \E p \in Procs : GetConfig(p)
    \/ \E p \in Procs : Readdir(p)
    \/ \E p \in Procs : ForceUnlink(p)
    \/ \E p \in Procs : ForceDereg(p)
    \/ \E p \in Procs, fails \in BOOLEAN : Exec(p, fails)
    \/ \E p \in Procs : Register(p)
    \/ \E p \in Procs : Cs(p, "value")
    \/ \E p \in Procs : DisposeStart(p)
    \/ \E p \in Procs, path \in OrderFiles : Unlink(p, path)
    \/ \E p \in Procs, path \in OrderFiles : Dereg(p, path)
    \/ \E p \in Procs : Release(p)
    \/ \E path \in OrderFiles : ExtLock(path)
    \/ \E path \in OrderFiles : ExtUnlock(path)

SpecOrder == Init /\ [][NextOrder]_vars

\* ---- update-lock.ts: readLock ----

\* rwlock readLock: the request waits when a writer holds the key or
\* others wait
readerMustWait(k) == readers[k] < 0 \/ queue[k] # <<>>

\* readLock(key) is requested
ReadLock(r, k) ==
    /\ rpc[r] = "idle"
    /\ rkey' = [rkey EXCEPT ![r] = k]
    /\ IF readerMustWait(k)
         THEN /\ queue' = [queue EXCEPT ![k] = Append(@, r)]
              /\ rpc' = [rpc EXCEPT ![r] = "waiting"]
              /\ UNCHANGED readers
         ELSE /\ readers' = [readers EXCEPT ![k] = @ + 1]
              /\ rpc' = [rpc EXCEPT ![r] = "reading"]
              /\ UNCHANGED queue
    /\ UNCHANGED <<callVars, writer, fileOwner, locksTaken, lockOverride,
                   hupVars, lf>>

\* the holder of a read lock calls its release function
ReadRelease(r) ==
    /\ rpc[r] = "reading"
    /\ LET k == rkey[r]
           d == drain(readers[k] - 1, queue[k], {})
       IN /\ readers' = [readers EXCEPT ![k] = d.readers]
          /\ queue' = [queue EXCEPT ![k] = d.queue]
          /\ writer' = [writer EXCEPT ![k] = holder(d.granted)]
          /\ pc' = [q \in Procs |->
                       IF q \in d.granted THEN "readdir" ELSE pc[q]]
          /\ rpc' = [x \in Readers |->
                        IF x = r THEN "idle"
                        ELSE IF x \in d.granted THEN "reading" ELSE rpc[x]]
    /\ rkey' = [rkey EXCEPT ![r] = NoApp]
    /\ UNCHANGED <<app, force, skip, lo, idx, toUnlink, toDereg, outcome,
                   ranCS, blockedOn, pre, cleared, calls, relCount, acquired,
                   lockedInfo, fileOwner, locksTaken, lockOverride, hupVars,
                   lf>>

\* lock() calls without options together with readLock() callers
NextRW ==
    \/ \E p \in Procs, a \in Apps : Call(p, a, FALSE, FALSE)
    \/ \E p \in Procs : GetConfig(p)
    \/ \E p \in Procs : Readdir(p)
    \/ \E p \in Procs : Exec(p, FALSE)
    \/ \E p \in Procs : Register(p)
    \/ \E p \in Procs : Cs(p, "value")
    \/ \E p \in Procs : DisposeStart(p)
    \/ \E p \in Procs, path \in LiveFiles : Unlink(p, path)
    \/ \E p \in Procs, path \in LiveFiles : Dereg(p, path)
    \/ \E p \in Procs : Release(p)
    \/ \E r \in Readers, k \in Apps : ReadLock(r, k)
    \/ \E r \in Readers : ReadRelease(r)

SpecRW == Init /\ [][NextRW]_vars

\* ---- update-lock.ts: a failing unlink during the unwind ----

\* dispose(release).throw(err): err when dispose resolved, else the
\* rejection of dispose
disposeThrow(disposed, err) == IF disposed = "ok" THEN err ELSE disposed

\* dispose(release) inside a .catch clause after lockfile.lock: unlinkAll
\* of the last pending lockfile.unlock rejects, so Bluebird.map rejects,
\* .finally(release) runs and .throw(err) is skipped.  After the
\* .catch(LockfileExistsError) clause the rejection passes the predicate
\* of the second .catch, which disposes again.
UnlinkFail(p, path) ==
    /\ pc[p] = "unlocking" /\ ~ranCS[p]
    /\ toUnlink[p] = {path} /\ toDereg[p] = {}
    /\ toUnlink' = [toUnlink EXCEPT ![p] = {}]
    /\ relCount' = [relCount EXCEPT ![p] = @ + 1]
    /\ outcome' = [outcome EXCEPT ![p] = disposeThrow("UnlinkError", @)]
    /\ LET k == app[p]
           first == relCount[p] = 0
           d == drain(0, queue[k], {})
           woken == IF first THEN d.granted ELSE {}
           again == first /\ lockedInfo[p] # NoInfo
                       /\ otherError(disposeThrow("UnlinkError", outcome[p]))
       IN /\ IF first
                THEN /\ readers' = [readers EXCEPT ![k] = d.readers]
                     /\ queue' = [queue EXCEPT ![k] = d.queue]
                     /\ writer' = [writer EXCEPT ![k] = holder(d.granted)]
                ELSE UNCHANGED <<readers, queue, writer>>
          /\ pc' = [q \in Procs |->
                       IF q = p THEN (IF again THEN "dispose" ELSE "done")
                       ELSE IF q \in woken THEN "readdir" ELSE pc[q]]
          /\ rpc' = [r \in Readers |->
                        IF r \in woken THEN "reading" ELSE rpc[r]]
          /\ IF again
                THEN UNCHANGED <<force, lo, idx, pre, cleared, acquired>>
                ELSE Settled(p)
    /\ UNCHANGED <<app, skip, toDereg, ranCS, blockedOn, calls, fileOwner,
                   locksTaken, lockOverride, lockedInfo>>
    /\ UNCHANGED envVars

\* lock() calls without options for application 1 next to the external
\* actor, where an unlink of the unwind can fail
NextUnwind ==
    \/ \E p \in Procs : Call(p, 1, FALSE, FALSE)
    \/ \E p \in Procs : GetConfig(p)
    \/ \E p \in Procs : Readdir(p)
    \/ \E p \in Procs : ForceUnlink(p)
    \/ \E p \in Procs : ForceDereg(p)
    \/ \E p \in Procs, fails \in BOOLEAN : Exec(p, fails)
    \/ \E p \in Procs : Register(p)
    \/ \E p \in Procs : Cs(p, "value")
    \/ \E p \in Procs : DisposeStart(p)
    \/ \E p \in Procs, path \in LiveFiles : Unlink(p, path)
    \/ \E p \in Procs, path \in LiveFiles : Dereg(p, path)
    \/ \E p \in Procs : Release(p)
    \/ \E p \in Procs, path \in LiveFiles : UnlinkFail(p, path)
    \/ \E path \in LiveFiles : ExtLock(path)
    \/ \E path \in LiveFiles : ExtUnlock(path)

SpecUnwind == Init /\ [][NextUnwind]_vars

\* ---- update-lock.ts: the configuration changes during a call ----

\* the configuration collaborator changes the lockOverride flag
SetLockOverride(b) ==
    /\ lockOverride # b
    /\ lockOverride' = b
    /\ UNCHANGED <<callVars, rpc, rkey, readers, queue, writer, fileOwner,
                   locksTaken, hupVars, lf>>

\* lock() calls without the force option for application 1, the external
\* actor, and a lockOverride flag that changes at any time
NextCfg ==
    \/ \E p \in Procs : Call(p, 1, FALSE, FALSE)
    \/ \E p \in Procs : GetConfig(p)
    \/ \E p \in Procs : Readdir(p)
    \/ \E p \in Procs : ForceUnlink(p)
    \/ \E p \in Procs : ForceDereg(p)
    \/ \E p \in Procs : Exec(p, FALSE)
    \/ \E p \in Procs : Register(p)
    \/ \E p \in Procs : Cs(p, "value")
    \/ \E p \in Procs : DisposeStart(p)
    \/ \E p \in Procs, path \in LiveFiles : Unlink(p, path)
    \/ \E p \in Procs, path \in LiveFiles : Dereg(p, path)
    \/ \E p \in Procs : Release(p)
    \/ \E b \in BOOLEAN : SetLockOverride(b)
    \/ \E path \in LiveFiles : ExtLock(path)
    \/ \E path \in LiveFiles : ExtUnlock(path)

SpecCfg == Init /\ [][NextCfg]_vars

\* ---- lockfile.ts called directly, and its exit hook ----

\* lock(): locksTaken[path] = true
register(taken, path) == taken \cup {path}

deregister_keep(taken, path) == taken

\* unlock(): delete locksTaken[path]
deregister(taken, path) == taken \ {path}

exitHook_abort(fs, taken, failing) ==
    [fs |-> IF taken \cap failing # {} THEN fs
            ELSE [f \in DOMAIN fs |-> IF f \in taken THEN None ELSE fs[f]],
     raised |-> taken \cap failing # {}]

\* process.on('exit'): unlockSync of every path of getLocksTaken() inside
\* try/catch; failing holds the paths whose fs.unlinkSync throws
exitHook(fs, taken, failing) ==
    [fs |-> [f \in DOMAIN fs |->
                IF f \in taken /\ f \notin failing THEN None ELSE fs[f]],
     raised |-> FALSE]

\* what the steps of the direct caller leave unchanged
lfFrame == <<callVars, rpc, rkey, readers, queue, writer, lockOverride,
             hupVars>>

\* lockfile.lock(path) is called
LfLock(path) ==
    /\ ~lf.exited /\ lf.pc = "idle"
    /\ lf' = [lf EXCEPT !.pc = "exec", !.op = "lock", !.path = path,
                        !.prim = None, !.err = None, !.redo = FALSE]
    /\ UNCHANGED <<fileOwner, locksTaken, lfFrame>>

\* lock(): chmod and the exec of the lockfile binary settle, and on failure
\* the catch block decides the error
LfExec(fails) ==
    /\ ~lf.exited /\ lf.pc = "exec"
    /\ LET res == exec(fileOwner[lf.path], fails)
       IN IF res = "created"
            THEN /\ fileOwner' = [fileOwner EXCEPT ![lf.path] = Client]
                 /\ lf' = [lf EXCEPT !.pc = "register", !.prim = res]
            ELSE /\ lf' = [lf EXCEPT !.pc = "idle", !.prim = res,
                                     !.err = lockError(res)]
                 /\ UNCHANGED fileOwner
    /\ UNCHANGED <<locksTaken, lfFrame>>

\* lock() after the await: the path enters the registry
LfRegister ==
    /\ ~lf.exited /\ lf.pc = "register"
    /\ locksTaken' = register(locksTaken, lf.path)
    /\ lf' = [lf EXCEPT !.pc = "idle", !.err = "ok"]
    /\ UNCHANGED <<fileOwner, lfFrame>>

\* lockfile.unlock(path) is called; redo: the call before it was a
\* completed unlock of the same path and nothing took the path since
LfUnlock(path) ==
    /\ ~lf.exited /\ lf.pc = "idle"
    /\ lf' = [lf EXCEPT !.pc = "unlink", !.op = "unlock", !.path = path,
                        !.prim = None, !.err = None,
                        !.redo = (/\ lf.op = "unlock" /\ lf.err = "ok"
                                  /\ lf.path = path
                                  /\ fileOwner[path] = None
                                  /\ path \notin locksTaken)]
    /\ UNCHANGED <<fileOwner, locksTaken, lfFrame>>

\* unlock(): await unlinkAll(path)
LfUnlink ==
    /\ ~lf.exited /\ lf.pc = "unlink"
    /\ fileOwner' = unlinkAll(fileOwner, lf.path)
    /\ lf' = [lf EXCEPT !.pc = "dereg"]
    /\ UNCHANGED <<locksTaken, lfFrame>>

\* unlock(): delete locksTaken[path]
LfDereg ==
    /\ ~lf.exited /\ lf.pc = "dereg"
    /\ locksTaken' = deregister(locksTaken, lf.path)
    /\ lf' = [lf EXCEPT !.pc = "idle", !.err = "ok"]
    /\ UNCHANGED <<fileOwner, lfFrame>>

\* the process exits and the exit hook runs; fs.unlinkSync throws for the
\* paths of failing and for every registered path whose file is missing
ExitHook(failing) ==
    /\ ~lf.exited
    /\ failing \subseteq locksTaken
    /\ LET thrown == failing \cup {f \in locksTaken : fileOwner[f] = None}
           hook == exitHook(fileOwner, getLocksTaken(locksTaken), thrown)
       IN /\ fileOwner' = hook.fs
          /\ lf' = [lf EXCEPT !.exited = TRUE, !.failed = thrown,
                              !.raised = hook.raised]
    /\ UNCHANGED <<locksTaken, lfFrame>>

\* lockfile.ts used directly, next to the external actor, until the exit
NextLF ==
    \/ \E path \in LiveFiles : LfLock(path)
    \/ \E fails \in BOOLEAN : LfExec(fails)
    \/ LfRegister
    \/ \E path \in LiveFiles : LfUnlock(path)
    \/ LfUnlink
    \/ LfDereg
    \/ \E failing \in SUBSET LiveFiles : ExitHook(failing)
    \/ \E path \in LiveFiles : ExtLock(path)
    \/ \E path \in LiveFiles : ExtUnlock(path)

SpecLF == Init /\ [][NextLF]_vars

\* ---- update-lock.ts: abortIfHUPInProgress ----

abortIfHUPInProgress_every(exists, f) ==
    LET frc == IF f = "undefined" THEN FALSE ELSE f = "true"
        anyExists == \A b \in Breadcrumbs : exists[b]
    IN IF anyExists /\ ~frc
         THEN [threw |-> "UpdatesLockedError", value |-> FALSE]
         ELSE [threw |-> None, value |-> anyExists]

\* the .then callback: existsArray.some(...), the throw and the return
\* value; `force = false` is the default of an undefined argument
abortIfHUPInProgress(exists, f) ==
    LET frc == IF f = "undefined" THEN FALSE ELSE f = "true"
        anyExists == \E b \in Breadcrumbs : exists[b]
    IN IF anyExists /\ ~frc
         THEN [threw |-> "UpdatesLockedError", value |-> FALSE]
         ELSE [threw |-> None, value |-> anyExists]

\* abortIfHUPInProgress({force}) is called
HupCall(f) ==
    /\ hupPc \in {"idle", "done"}
    /\ hupPc' = "checking"
    /\ hupForce' = f
    /\ existsArray' = [b \in Breadcrumbs |-> FALSE]
    /\ received' = {}
    /\ hupResult' = [threw |-> None, value |-> FALSE]
    /\ UNCHANGED <<breadcrumb, lockVars>>

\* one pathExistsOnHost of the Promise.all resolves
HupExists(b) ==
    /\ hupPc = "checking"
    /\ b \notin received
    /\ received' = received \cup {b}
    /\ existsArray' = [existsArray EXCEPT ![b] = breadcrumb[b]]
    /\ UNCHANGED <<breadcrumb, hupPc, hupForce, hupResult, lockVars>>

\* Promise.all resolved: the .then callback runs
HupSettle ==
    /\ hupPc = "checking"
    /\ received = Breadcrumbs
    /\ hupResult' = abortIfHUPInProgress(existsArray, hupForce)
    /\ hupPc' = "done"
    /\ UNCHANGED <<breadcrumb, hupForce, existsArray, received, lockVars>>

\* a rollback service of the host creates or removes its breadcrumb
BreadcrumbChange(b) ==
    /\ breadcrumb' = [breadcrumb EXCEPT ![b] = ~@]
    /\ UNCHANGED <<hupPc, hupForce, existsArray, received, hupResult,
                   lockVars>>

NextHUP ==
    \/ \E f \in ForceArgs : HupCall(f)
    \/ \E b \in Breadcrumbs : HupExists(b)
    \/ HupSettle
    \/ \E b \in Breadcrumbs : BreadcrumbChange(b)

SpecHUP == Init /\ [][NextHUP]_vars

TypeOK ==
    /\ pc \in [Procs -> {"idle", "config", "waiting", "readdir", "funlink",
                         "fdereg", "exec", "register", "cs", "dispose",
                         "unlocking", "done"}]
    /\ locksTaken \subseteq Files
    /\ \A k \in Keys : readers[k] \in -1..Cardinality(Readers)
    /\ rpc \in [Readers -> {"idle", "waiting", "reading"}]
    /\ relCount \in [Procs -> 0..2]
    /\ \A p \in Procs : Len(acquired[p]) <= Len(LockSeq(app[p]))

\* ---- properties ----

\* the call went through the locking branch of lock()
Locking(p) == ~skip[p] /\ app[p] \in Keys

\* p has been granted the write lock and its release sequence is not over
InLock(p) ==
    /\ Locking(p)
    /\ pc[p] \in {"readdir", "funlink", "fdereg", "exec", "register", "cs",
                  "dispose", "unlocking"}

InCS(p) == Locking(p) /\ pc[p] = "cs"

\* C1: two calls for the same appId that do not skip the lock are never both
\* between the grant of the write lock and the end of their release
\* sequence; so a critical section starts only after the earlier call has
\* removed its lock files and released the write lock.
C1_MutualExclusion ==
    \A p, q \in Procs :
        (p # q /\ InLock(p) /\ InLock(q)) => app[p] # app[q]

C1_Witness ==
    \E p, q \in Procs :
        /\ p # q /\ app[p] = app[q]
        /\ pc[p] = "unlocking" /\ Locking(p) /\ ranCS[p]
        /\ pc[q] = "waiting"

\* C2: once a call that took the locking branch has completed, no lock file
\* it created is left and it no longer holds the write lock of its appId.
C2_CleanAfterCall ==
    \A p \in Procs :
        (pc[p] = "done" /\ Locking(p)) =>
            /\ \A f \in Files : fileOwner[f] # p
            /\ writer[app[p]] # p

\* C3: while a critical section entered without force and without
\* lockOverride runs, no external actor holds a lock file of a service the
\* call enumerated.
C3_NoExternalHolder ==
    \A p \in Procs :
        (InCS(p) /\ ~force[p] /\ ~lo[p]) =>
            \A f \in AppFiles(app[p]) : fileOwner[f] # Ext

C5_ForceClears ==
    \A p \in Procs :
        (Locking(p) /\ (force[p] \/ lo[p])) =>
            /\ (pc[p] \in {"exec", "register"} =>
                    LockSeq(app[p])[idx[p]] \notin pre[p])
            /\ (pc[p] = "register" =>
                    \A i \in 1..(idx[p] - 1) : LockSeq(app[p])[i] \notin pre[p])
            /\ (pc[p] = "cs" => pre[p] = {})
            /\ (pc[p] = "dispose" /\ blockedOn[p] # None =>
                    blockedOn[p] \notin pre[p])
            /\ (pc[p] = "dispose" /\ ~ranCS[p] => outcome[p] # None)

C5_Witness ==
    \E p \in Procs :
        /\ InCS(p) /\ ~force[p] /\ lo[p]
        /\ \A f \in AppFiles(app[p]) : fileOwner[f] = p
        /\ AppFiles(app[p]) # {}
        /\ cleared[p] # {}

\* C6: a call with skipLock, or without appId, runs fn at once and neither
\* step of it changes the in-process lock, the filesystem, the registry or
\* the lockOverride value it holds; it never reaches the config read.
C6_SkipLockNoEffect ==
    [][\A p \in Procs :
          /\ (pc[p] \in {"idle", "done"} /\ pc'[p] # pc[p]
                /\ (skip'[p] \/ app'[p] = NoApp)) =>
                /\ pc'[p] = "cs" /\ ranCS'[p] /\ ~lo'[p]
                /\ UNCHANGED <<readers, queue, writer, fileOwner, locksTaken,
                               lockOverride>>
          /\ (pc[p] = "cs" /\ (skip[p] \/ app[p] = NoApp) /\ pc'[p] # pc[p]) =>
                /\ pc'[p] = "done" /\ ~lo'[p]
                /\ UNCHANGED <<readers, queue, writer, fileOwner, locksTaken,
                               lockOverride>>]_vars

C6_Witness ==
    \E p, q \in Procs :
        /\ pc[p] = "cs" /\ skip[p] /\ app[p] \in Apps
        /\ InCS(q) /\ app[q] = app[p]
        /\ \E f \in AppFiles(app[p]) : fileOwner[f] = q

\* C7: whenever the write lock of an appId is free, no lock file created by
\* a call of this process for a service of that appId exists.
C7_FreeLockNoFiles ==
    \A a \in Apps :
        readers[a] = 0 => \A f \in AppFiles(a) : fileOwner[f] \notin Procs

\* C8: a call whose acquisition failed with a fatal lockfile error has not
\* run the critical section, fails with that error, and once it completed
\* none of the lock files it acquired is left and the write lock is released.
C8_FatalErrorUnwinds ==
    \A p \in Procs :
        (Locking(p) /\ outcome[p] = "Error") =>
            /\ ~ranCS[p]
            /\ pc[p] \in {"dispose", "unlocking", "done"}
            /\ (pc[p] = "done" =>
                   /\ \A f \in Files : fileOwner[f] # p
                   /\ writer[app[p]] # p)

\* C9: abortIfHUPInProgress returns false when neither breadcrumb was found,
\* whatever force is; fails with UpdatesLockedError when one was found and
\* force is false or absent; returns true when one was found and force is
\* true; with force true it never fails.
C9_HUPTable ==
    hupPc = "done" =>
        LET found == existsArray["rollback-health-breadcrumb"]
                       \/ existsArray["rollback-altboot-breadcrumb"]
        IN /\ (~found =>
                  hupResult = [threw |-> None, value |-> FALSE])
           /\ ((found /\ hupForce # "true") =>
                  hupResult.threw = "UpdatesLockedError")
           /\ ((found /\ hupForce = "true") =>
                  hupResult = [threw |-> None, value |-> TRUE])
           /\ (hupForce = "true" => hupResult.threw = None)

C9_Witness ==
    /\ hupPc = "done" /\ hupForce = "true"
    /\ existsArray["rollback-health-breadcrumb"]
    /\ ~existsArray["rollback-altboot-breadcrumb"]
    /\ hupResult.value

\* C10: a call waits for the write lock only while another call holds the
\* lock of the same appId; a lock held for a different appId never makes it
\* wait, and calls for different appIds are in their critical sections at
\* the same time.
C10_NoCrossAppWait ==
    /\ \A p \in Procs :
          pc[p] = "waiting" =>
             /\ readers[app[p]] # 0 /\ writer[app[p]] \in Procs
             /\ \E i \in 1..Len(queue[app[p]]) : queue[app[p]][i] = p
    /\ \A k \in Apps : \A i \in 1..Len(queue[k]) : app[queue[k][i]] = k

C10_Witness ==
    \E p, q \in Procs :
        /\ p # q /\ app[p] # app[q]
        /\ InCS(p) /\ InCS(q)

\* the readLock() callers that hold key k
ReadHolders(k) == {r \in Readers : rpc[r] = "reading" /\ rkey[r] = k}

\* the lock() calls that hold the write lock of key k
WriteHolders(k) == {p \in Procs : InLock(p) /\ app[p] = k}

\* C11: for every key, at most one call holds the write lock, no read lock
\* is held while the write lock is held and the other way round, the count
\* of the lock is the number of read holders, and no critical section of a
\* lock() call for the key runs while a read lock of the key is held.
C11_ReadersWriter ==
    \A k \in Apps :
        /\ Cardinality(WriteHolders(k)) <= 1
        /\ WriteHolders(k) # {} => (ReadHolders(k) = {} /\ readers[k] = -1)
        /\ ReadHolders(k) # {} =>
              (WriteHolders(k) = {}
               /\ readers[k] = Cardinality(ReadHolders(k)))
        /\ \A p \in Procs :
              (InCS(p) /\ app[p] = k) => ReadHolders(k) = {}

C11_Witness ==
    \E k \in Apps, p \in Procs :
        /\ Cardinality(ReadHolders(k)) = 2
        /\ pc[p] = "waiting" /\ app[p] = k

\* C12: a call settles with InternalInconsistencyError exactly in the step
\* in which reading lockOverride from config fails; that step requests no
\* write lock and creates or deletes no lock file, and the critical section
\* of the call never runs.  No failure of the acquisition or of the critical
\* section becomes an InternalInconsistencyError.
C12_ConfigFailureOnly ==
    [][\A p \in Procs :
          /\ (outcome'[p] = "InternalInconsistencyError"
                 /\ outcome[p] # "InternalInconsistencyError") =>
                /\ pc[p] = "config" /\ pc'[p] = "done"
                /\ UNCHANGED <<readers, queue, writer, fileOwner, locksTaken>>
          /\ (pc[p] = "config" /\ pc'[p] = "done") =>
                outcome'[p] = "InternalInconsistencyError"
          /\ outcome'[p] = "InternalInconsistencyError" =>
                (pc'[p] = "done" /\ ~ranCS'[p] /\ relCount'[p] = 0)]_vars

C12_Witness ==
    \E p, q \in Procs :
        /\ pc[p] = "done" /\ outcome[p] = "InternalInconsistencyError"
        /\ pc[q] = "done" /\ outcome[q] = "Error"

\* C13: once the critical section of a call that acquired every lock file
\* has settled, the outcome of the call is that value or that very error:
\* the release sequence does not change it, and it is delivered only when
\* the unlinks are over and the release function has been invoked.
C13_OutcomeIsCsOutcome ==
    [][\A p \in Procs :
          (Locking(p) /\ ranCS[p] /\ pc[p] \in {"dispose", "unlocking"}) =>
              /\ outcome[p] \in {"value", "CsError"}
              /\ outcome'[p] = outcome[p]
              /\ pc'[p] \in {"dispose", "unlocking", "done"}
              /\ pc'[p] = "done" =>
                    /\ toUnlink[p] = {} /\ toDereg[p] = {}
                    /\ relCount'[p] = 1
                    /\ writer'[app[p]] # p]_vars

C13_Witness ==
    \E p \in Procs :
        /\ pc[p] = "done" /\ Locking(p) /\ ranCS[p]
        /\ outcome[p] = "CsError" /\ relCount[p] = 1
        /\ AppFiles(app[p]) # {}

\* C14: while the critical section of a call for appId runs, updates.lock
\* and resin-updates.lock exist under every service directory the call
\* enumerated (the external actor removes only files of its own), whatever
\* calls for other appIds do meanwhile; and once the call has returned no
\* lock file it created exists.
C14_FilesHeldDuringCS ==
    \A p \in Procs :
        /\ InCS(p) => \A f \in AppFiles(app[p]) : fileOwner[f] # None
        /\ (pc[p] = "done" /\ Locking(p) /\ ranCS[p]) =>
              \A f \in AppFiles(app[p]) : fileOwner[f] # p

\* C15: a call made with force = false while lockOverride = false deletes,
\* in its release step, no lock file that another call or an external
\* process created: an existing file it unlinks is one it created itself.
C15_DeletesOnlyOwn ==
    [][\A p \in Procs, f \in Files :
          (/\ pc[p] = "unlocking" /\ ~force[p] /\ ~lo[p]
           /\ f \in toUnlink[p] /\ f \notin toUnlink'[p]
           /\ fileOwner[f] # None) => fileOwner[f] = p]_vars

\* C16: every call that was granted the write lock invokes the release
\* function exactly once before it completes, whichever way it leaves:
\* never zero times and never twice.
C16_ReleasedExactlyOnce ==
    \A p \in Procs :
        /\ relCount[p] <= 1
        /\ (pc[p] = "done" /\ Locking(p)
               /\ outcome[p] # "InternalInconsistencyError") =>
              relCount[p] = 1

\* C17: a call whose listing of the lock directory failed with an error
\* other than missing-directory has failed with that error, has not run
\* its critical section, and has released the write lock it was granted.
C17_ReaddirFailureReleases ==
    \A p \in Procs :
        (pc[p] = "done" /\ outcome[p] = "ReaddirError") =>
            /\ ~ranCS[p]
            /\ relCount[p] = 1
            /\ writer[app[p]] # p

\* C18: the write lock of a key is never held without a call in flight
\* that will release it, so a call waiting for the key is waiting for a
\* holder that is still on its way to the release.
C18_HeldLockHasReleaser ==
    \A k \in Apps :
        /\ readers[k] = -1 => \E p \in Procs : InLock(p) /\ app[p] = k
        /\ \A q \in Procs :
              (pc[q] = "waiting" /\ app[q] = k) =>
                  \E p \in Procs \ {q} : InLock(p) /\ app[p] = k

\* the order the claims give for the lock files of a call: the services in
\* directory order, updates.lock before resin-updates.lock
ClaimedOrder(appId) ==
    [i \in 1..(2 * Len(ServiceDirs(appId))) |->
        <<<<appId, ServiceDirs(appId)[(i + 1) \div 2]>>,
          IF i % 2 = 1 THEN "updates.lock" ELSE "resin-updates.lock">>]

\* the acquisition of the call has failed and the call has not settled yet
Failed(p) ==
    Locking(p) /\ ~ranCS[p] /\ outcome[p] # None
        /\ pc[p] \in {"dispose", "unlocking"}

\* C19: the lock files a call has created so far are an initial part of
\* the order service by service in directory order, updates.lock before
\* resin-updates.lock, and grow by one file at a time; once an acquisition
\* of the call has failed the call creates no further lock file.
C19_OrderedAcquisition ==
    /\ [](\A p \in Procs :
            Locking(p) =>
                /\ Len(acquired[p]) <= Len(ClaimedOrder(app[p]))
                /\ acquired[p] =
                      SubSeq(ClaimedOrder(app[p]), 1, Len(acquired[p])))
    /\ [][\A p \in Procs :
            /\ Len(acquired'[p]) <= Len(acquired[p]) + 1
            /\ Failed(p) => acquired'[p] \in {acquired[p], <<>>}
            /\ Failed(p) => \A f \in Files :
                              fileOwner'[f] = p => fileOwner[f] = p]_vars

C19_Witness ==
    \E p \in Procs :
        /\ Failed(p) /\ pc[p] = "unlocking"
        /\ Len(acquired[p]) = 2
        /\ outcome[p] = "UpdatesLockedError"
        /\ lockedInfo[p] = <<app[p], ServiceDirs(app[p])[2]>>

\* C20: a call that fails with UpdatesLockedError reports its own appId and
\* the service of the lock file whose creation met an existing file, which
\* is the first lock file in acquisition order the call could not create.
C20_ErrorNamesService ==
    \A p \in Procs :
        outcome[p] = "UpdatesLockedError" =>
            /\ lockedInfo[p] # NoInfo
            /\ lockedInfo[p] = blockedOn[p][1]
            /\ lockedInfo[p][1] = app[p]
            /\ Failed(p) =>
                  blockedOn[p] = ClaimedOrder(app[p])[Len(acquired[p]) + 1]

C20_Witness ==
    \E p \in Procs :
        /\ outcome[p] = "UpdatesLockedError" /\ pc[p] = "done"
        /\ lockedInfo[p] = <<app[p], ServiceDirs(app[p])[2]>>

\* C21: a call for an appId whose lock directory is missing does not fail
\* on the missing directory: after the listing it runs its critical section
\* at once, it creates no lock file, and when it completes it has released
\* the write lock and settles as its critical section did.
C21_MissingDirNoServices ==
    /\ [](\A p \in Procs :
            (Locking(p) /\ ServiceDirs(app[p]) = <<>>) =>
                /\ outcome[p] # "ENOENT"
                /\ acquired[p] = <<>>
                /\ (pc[p] = "done" /\ ranCS[p]) =>
                      /\ relCount[p] = 1
                      /\ writer[app[p]] # p
                      /\ outcome[p] \in {"value", "CsError"})
    /\ [][\A p \in Procs :
            (/\ Locking(p) /\ ServiceDirs(app[p]) = <<>>
             /\ pc[p] \notin {"idle", "done"}) =>
                /\ \A f \in Files : fileOwner'[f] = p => fileOwner[f] = p
                /\ (pc[p] = "readdir" /\ pc'[p] # "readdir"
                      /\ outcome'[p] # "ReaddirError") =>
                      (pc'[p] = "cs" /\ ranCS'[p])]_vars

C21_Witness ==
    \E p \in Procs :
        /\ Locking(p) /\ ServiceDirs(app[p]) = <<>>
        /\ pc[p] = "done" /\ ranCS[p] /\ outcome[p] = "value"
        /\ relCount[p] = 1

\* C22: a call whose acquisition failed completes with the error that
\* triggered the unwind, UpdatesLockedError for an existing lock file and
\* the fatal error otherwise, also when an unlink of the unwind failed, and
\* it has released the write lock.
C22_OriginalErrorSurfaces ==
    \A p \in Procs :
        (/\ pc[p] = "done" /\ Locking(p) /\ ~ranCS[p]
         /\ outcome[p] \notin {"InternalInconsistencyError", "ReaddirError"}) =>
            /\ outcome[p] = IF lockedInfo[p] # NoInfo
                               THEN "UpdatesLockedError" ELSE "Error"
            /\ writer[app[p]] # p

\* C23: lockfile.lock registers the path exactly when the atomic create
\* succeeded, in the step after it; a create refused because the file exists
\* gives LockfileExistsError, any other failure gives the fatal error, and
\* both failures leave the registry and the files as they were.
C23_Step ==
    /\ (lf.pc = "exec" /\ lf'.pc # lf.pc) =>
          /\ lf'.prim = "created" =>
                /\ fileOwner[lf.path] = None
                /\ fileOwner' = [fileOwner EXCEPT ![lf.path] = Client]
                /\ lf'.pc = "register"
          /\ lf'.prim = "exists" =>
                /\ fileOwner[lf.path] # None
                /\ lf'.pc = "idle" /\ lf'.err = "LockfileExistsError"
                /\ UNCHANGED <<fileOwner, locksTaken>>
          /\ lf'.prim = "error" =>
                /\ lf'.pc = "idle" /\ lf'.err = "Error"
                /\ UNCHANGED <<fileOwner, locksTaken>>
    /\ (lf.pc = "register" /\ lf'.pc # lf.pc) =>
          /\ lf.prim = "created"
          /\ locksTaken' = locksTaken \cup {lf.path}
          /\ lf'.pc = "idle" /\ lf'.err = "ok"
    /\ (locksTaken' \ locksTaken # {}) => lf.pc = "register"

C24_Step ==
    /\ (lf.pc = "unlink" /\ lf'.pc # lf.pc) =>
          /\ fileOwner'[lf.path] = None
          /\ \A f \in Files \ {lf.path} : fileOwner'[f] = fileOwner[f]
          /\ fileOwner[lf.path] = None => fileOwner' = fileOwner
          /\ locksTaken' = locksTaken
          /\ lf'.pc = "dereg"
    /\ (lf.pc = "dereg" /\ lf'.pc # lf.pc) =>
          /\ lf.path \notin locksTaken'
          /\ \A f \in Files \ {lf.path} :
                 f \in locksTaken' <=> f \in locksTaken
          /\ lf.path \notin locksTaken => locksTaken' = locksTaken
          /\ fileOwner' = fileOwner
          /\ lf'.pc = "idle" /\ lf'.err = "ok"

C24_UnlockIdempotent == [][C24_Step]_vars

\* a second unlock of a path right after a completed first one, while
\* another path stays registered with its file
C24_Witness ==
    /\ lf.pc = "idle" /\ lf.op = "unlock" /\ lf.err = "ok" /\ lf.redo
    /\ fileOwner[lf.path] = None /\ lf.path \notin locksTaken
    /\ \E f \in locksTaken : fileOwner[f] = Client

\* C26: the exit hook tries to delete the file of every registered path; a
\* deletion that fails is ignored, every other registered file is gone
\* afterwards, no other file changes, and the hook raises nothing.
C26_Step ==
    (~lf.exited /\ lf'.exited) =>
        /\ \A f \in Files :
              /\ (f \in locksTaken /\ f \notin lf'.failed) =>
                     fileOwner'[f] = None
              /\ (f \notin locksTaken \/ f \in lf'.failed) =>
                     fileOwner'[f] = fileOwner[f]
        /\ ~lf'.raised

C26_ExitHookBestEffort == [][C26_Step]_vars

\* the hook has run with two registered paths: one deletion failed, the
\* file of the other path is gone
C26_Witness ==
    /\ lf.exited /\ ~lf.raised
    /\ \E f, g \in locksTaken :
          /\ f \in lf.failed /\ fileOwner[f] = Client
          /\ g \notin lf.failed /\ fileOwner[g] = None

\* C25: every path of the registry was acquired by a lock() call that is
\* still in flight, and the registry is empty whenever no lock() call is in
\* flight.
C25_NoStaleEntry ==
    /\ \A f \in locksTaken :
          \E p \in Procs :
              /\ pc[p] \notin {"idle", "done"}
              /\ \E i \in 1..Len(acquired[p]) : acquired[p][i] = f
    /\ (\A p \in Procs : pc[p] \in {"idle", "done"}) => locksTaken = {}

\* C27: a call reads lockOverride once, in the step that requests the write
\* lock, and keeps that value until it settles; for every lock file the
\* value read, together with force, decides whether the file is cleared
\* before the create, whatever the flag has become since.
C27_Step ==
    \A p \in Procs :
        /\ (pc[p] = "config" /\ pc'[p] # "config") =>
               /\ lo'[p] = lockOverride
               /\ pc'[p] \in {"waiting", "readdir"}
        /\ (pc[p] \in {"waiting", "readdir", "funlink", "fdereg", "exec",
                        "register"} /\ pc'[p] # "done") => lo'[p] = lo[p]
        /\ (pc[p] \in {"readdir", "register"}
              /\ pc'[p] \in {"funlink", "exec"}) =>
               (pc'[p] = "funlink" <=> (force[p] \/ lo[p]))
        /\ (pc'[p] = "exec" /\ pc[p] # "exec") =>
               pc[p] \in (IF force[p] \/ lo[p] THEN {"fdereg"}
                          ELSE {"readdir", "register"})

C27_OverrideReadOnce == [][C27_Step]_vars

\* a call clears the second lock file of its service because it read the
\* flag as set, although the flag has been switched off since
C27_Witness ==
    \E p \in Procs :
        /\ pc[p] = "funlink" /\ idx[p] = 2
        /\ lo[p] /\ ~force[p] /\ ~lockOverride
====
